---- MODULE Spec2Model ----
(***************************************************************************)
(* Model of the browser front end of the business assistant.               *)
(*                                                                         *)
(*   static/js/script.js   the onboarding chat: sendMessage and its two    *)
(*                         request handlers, handleIdeaSubmission and      *)
(*                         handleClarification                             *)
(*   the dashboard script  the per-section chat: openChat, sendChatMessage *)
(*                                                                         *)
(* JavaScript runs each handler to its next await without interruption, so *)
(* a handler is one action up to the fetch it awaits and one action from   *)
(* the arrival of the response to its end.  The backend is the             *)
(* environment: it answers every request in flight, in any order.          *)
(***************************************************************************)
EXTENDS Integers, Sequences, FiniteSets, TLC

VARIABLES
    messageInput,       \* script.js: messageInput.value
    sessionId,          \* script.js: let sessionId
    currentStatus,      \* script.js: let currentStatus
    currentQuestions,   \* script.js: window.currentQuestions
    chatContainer,      \* script.js: the bubbles appended by addMessage
    loadingIndicator,   \* script.js: TRUE while the indicator is shown
    fetches,            \* script.js: the onboarding requests awaiting a response
    nextRequest,        \* number of the next onboarding request
    timers,             \* script.js: pending setTimeout callbacks
    navigations,        \* script.js: the values assigned to window.location.href
    unloaded,           \* TRUE once the browser has left the page
    currentChatTopic,   \* dashboard: let currentChatTopic
    currentChatContext, \* dashboard: let currentChatContext
    chatHistoryMap,     \* dashboard: const chatHistoryMap, a function from the
                        \* topics it has as keys to their html
    chatHistoryDiv,     \* dashboard: innerHTML of #modal-chat-history
    modalChatInput,     \* dashboard: value of #modal-chat-input
    chatFetches,        \* dashboard: the sendChatMessage calls awaiting a response
    nextChat,           \* number of the next chat send
    now,                \* dashboard: Date.now()
    urlSessionId,       \* dashboard: urlParams.get('session_id')
    dashboardStage,     \* dashboard: where the DOMContentLoaded handler is
    dashboardRequests,  \* dashboard: the session ids of the requests issued
    alerts,             \* dashboard: number of alert() calls
    dashboardLocation,  \* dashboard: the values assigned to window.location.href
    loadingOverlay,     \* dashboard: TRUE while #loading-overlay is shown
    dashboardContent,   \* dashboard: TRUE while #dashboard-content is shown
    loadingText,        \* dashboard: innerText of #loading-text
    chatButtons,        \* dashboard: TRUE once addChatButton has run
    lastEvent           \* the event handled by the last step

onboardingVars ==
    <<messageInput, sessionId, currentStatus, currentQuestions, chatContainer,
      loadingIndicator, fetches, nextRequest, timers, navigations, unloaded>>

chatVars ==
    <<currentChatTopic, currentChatContext, chatHistoryMap, chatHistoryDiv,
      modalChatInput, chatFetches, nextChat, now>>

dashboardVars ==
    <<urlSessionId, dashboardStage, dashboardRequests, alerts, dashboardLocation,
      loadingOverlay, dashboardContent, loadingText, chatButtons>>

vars == <<onboardingVars, chatVars, dashboardVars, lastEvent>>

-----------------------------------------------------------------------------
(* Bounds and input domains *)

MaxSends == 3          \* requests one run of the onboarding page issues
MaxChatSends == 2      \* chat messages one run of the dashboard sends
MaxTime == 1           \* milliseconds that pass during one run of the dashboard

Null == "null"
Undefined == "undefined"
\* window.currentQuestions, or data.questions, when it holds no list
NoList == <<Undefined>>

\* Texts are sequences of characters; " " is white space.  What the user
\* types: nothing, white space only, or two words with white space around.
Texts == {<<>>, <<" ", " ">>, <<" ", "a", " ", "b", " ">>}

\* Bodies of a successful idea-submission response (data of line 53): the
\* backend asks for clarification, with or without a message of its own, or
\* accepts the idea as it is.  A question list is the sequence of its
\* questions' question_id: none, one, or several with an id that occurs twice.
IdeaData ==
    { [status |-> "clarification_required", session_id |-> "s1",
       questions |-> <<"q1">>, message |-> "Tell me more"],
      [status |-> "clarification_required", session_id |-> "s1",
       questions |-> <<>>, message |-> Undefined],
      [status |-> "clarification_required", session_id |-> "s2",
       questions |-> <<"q2", "q1", "q2">>, message |-> Undefined],
      [status |-> "accepted", session_id |-> "s2",
       questions |-> NoList, message |-> Undefined] }

\* Bodies of a successful clarification response (data of line 117).
ClarifyData == [status : {"complete", "processing"}]

\* A non-success response: status, statusText and what response.json() gives.
ErrorResponses ==
    [status : {400}, statusText : {"Bad Request"}, parseable : {TRUE},
     detail : {Undefined, "bad input"}]
    \cup
    [status : {502}, statusText : {"", "Bad Gateway"}, parseable : {FALSE},
     detail : {Undefined}]

-----------------------------------------------------------------------------
(* Pure helpers *)

RECURSIVE TrimStart(_)
TrimStart(s) ==
    IF s = <<>> THEN s
    ELSE IF Head(s) = " " THEN TrimStart(Tail(s)) ELSE s

RECURSIVE TrimEnd(_)
TrimEnd(s) ==
    IF s = <<>> THEN s
    ELSE IF s[Len(s)] = " " THEN TrimEnd(SubSeq(s, 1, Len(s) - 1)) ELSE s

\* A bug: the text is used as typed.
TrimNothing(s) == s

\* String.prototype.trim
Trim(s) == TrimEnd(TrimStart(s))

\* a || b of JavaScript, on values that are undefined or strings
OrElse(a, b) == IF a = Undefined \/ a = "" THEN b ELSE a

\* errData of lines 48 and 112: response.json().catch(() => ({}))
ErrData(resp) == IF resp.parseable THEN [detail |-> resp.detail]
                 ELSE [detail |-> Undefined]

\* A bug: the status text is skipped.
ErrorMessageNoStatusText(resp) ==
    OrElse(ErrData(resp).detail, "Unknown API Error")

\* errorMessage of lines 49 and 113
ErrorMessage(resp) ==
    OrElse(ErrData(resp).detail, OrElse(resp.statusText, "Unknown API Error"))

\* The bubble that the catch of sendMessage adds for the Error thrown at
\* lines 50 and 114.
ApiErrorBubble(resp) ==
    [sender |-> "ai", kind |-> "error",
     content |-> <<"Error: API Error", resp.status, ErrorMessage(resp)>>]

Bubble(sender, kind, content) ==
    [sender |-> sender, kind |-> kind, content |-> content]

\* A bug: only the first question gets the text.
RECURSIVE AnswersFirstOnly(_, _, _, _)
AnswersFirstOnly(questions, answerText, idx, answersMap) ==
    IF idx > Len(questions) THEN answersMap
    ELSE AnswersFirstOnly(questions, answerText, idx + 1,
            (questions[idx] :> (IF idx = 1 THEN answerText ELSE <<"See above">>))
                @@ answersMap)

\* The forEach of lines 89-99 from element idx on: two assignments to
\* answersMap[q.question_id], the second with the full text.
RECURSIVE AnswersFrom(_, _, _, _)
AnswersFrom(questions, answerText, idx, answersMap) ==
    IF idx > Len(questions) THEN answersMap
    ELSE LET first == (questions[idx] :>
                         (IF idx = 1 THEN answerText ELSE <<"See above">>))
                      @@ answersMap
             second == (questions[idx] :> answerText) @@ first
         IN AnswersFrom(questions, answerText, idx + 1, second)

\* answersMap of lines 87-100
AnswersMap(questions, answerText) ==
    IF questions = NoList THEN <<>>
    ELSE AnswersFrom(questions, answerText, 1, <<>>)

-----------------------------------------------------------------------------
(* The onboarding page, script.js *)

Event(op, arg) == [op |-> op, arg |-> arg]

OnboardingInit ==
    /\ messageInput = <<>>
    /\ sessionId = Null
    /\ currentStatus = "initial"
    /\ currentQuestions = NoList
    /\ chatContainer = <<>>
    /\ loadingIndicator = FALSE
    /\ fetches = {}
    /\ nextRequest = 1
    /\ timers = 0
    /\ navigations = <<>>
    /\ unloaded = FALSE

\* The user edits the textarea.
typeInput(raw) ==
    /\ UNCHANGED <<chatVars, dashboardVars>>
    /\ ~unloaded
    /\ raw # messageInput
    /\ messageInput' = raw
    /\ lastEvent' = Event("typeInput", raw)
    /\ UNCHANGED <<sessionId, currentStatus, currentQuestions, chatContainer,
                   loadingIndicator, fetches, nextRequest, timers, navigations,
                   unloaded>>

\* A bug: the idea is submitted under the stored session id.
IdeaRequestKeepsSession(ideaText) ==
    [id |-> nextRequest, kind |-> "submit",
     body |-> [idea_text |-> ideaText, session_id |-> sessionId]]

\* The request of lines 41-45.
IdeaRequest(ideaText) ==
    [id |-> nextRequest, kind |-> "submit",
     body |-> [idea_text |-> ideaText, session_id |-> ""]]

\* The request of lines 87-109.
ClarifyRequest(answerText) ==
    [id |-> nextRequest, kind |-> "clarify",
     body |-> [session_id |-> sessionId,
               answers |-> AnswersMap(currentQuestions, answerText)]]

\* sendMessage, lines 16-38, up to the fetch its handler awaits.
sendMessage ==
    /\ UNCHANGED <<chatVars, dashboardVars>>
    /\ ~unloaded
    /\ lastEvent' = Event("sendMessage", Null)
    /\ LET text == Trim(messageInput) IN
       IF text = <<>>
       THEN UNCHANGED onboardingVars
       ELSE /\ nextRequest <= MaxSends
            /\ chatContainer' = Append(chatContainer, Bubble("user", "text", text))
            /\ messageInput' = <<>>
            /\ IF currentStatus = "initial"
               THEN /\ fetches' = fetches \cup {IdeaRequest(text)}
                    /\ nextRequest' = nextRequest + 1
                    /\ loadingIndicator' = TRUE
               ELSE IF currentStatus = "clarification"
               THEN /\ fetches' = fetches \cup {ClarifyRequest(text)}
                    /\ nextRequest' = nextRequest + 1
                    /\ loadingIndicator' = TRUE
               ELSE /\ loadingIndicator' = FALSE
                    /\ UNCHANGED <<fetches, nextRequest>>
            /\ UNCHANGED <<sessionId, currentStatus, currentQuestions, timers,
                           navigations, unloaded>>

\* A bug: the session id is stored only when clarification is asked for.
handleIdeaSubmissionOkStoresLate(r, data) ==
    /\ UNCHANGED <<chatVars, dashboardVars>>
    /\ ~unloaded
    /\ r \in fetches /\ r.kind = "submit"
    /\ fetches' = fetches \ {r}
    /\ IF data.status = "clarification_required"
       THEN /\ sessionId' = data.session_id
            /\ currentStatus' = "clarification"
            /\ chatContainer' = Append(chatContainer,
                  Bubble("ai", "questions",
                         <<OrElse(data.message, "I need a few more details"),
                           data.questions>>))
            /\ currentQuestions' = data.questions
       ELSE /\ chatContainer' = Append(chatContainer,
                  Bubble("ai", "accepted", "Idea accepted without clarification"))
            /\ UNCHANGED <<sessionId, currentStatus, currentQuestions>>
    /\ loadingIndicator' = FALSE
    /\ lastEvent' = Event("submitOk", data)
    /\ UNCHANGED <<messageInput, nextRequest, timers, navigations, unloaded>>

\* handleIdeaSubmission, lines 53-74, and the finally of sendMessage.
handleIdeaSubmissionOk(r, data) ==
    /\ UNCHANGED <<chatVars, dashboardVars>>
    /\ ~unloaded
    /\ r \in fetches /\ r.kind = "submit"
    /\ fetches' = fetches \ {r}
    /\ sessionId' = data.session_id
    /\ IF data.status = "clarification_required"
       THEN /\ currentStatus' = "clarification"
            /\ chatContainer' = Append(chatContainer,
                  Bubble("ai", "questions",
                         <<OrElse(data.message, "I need a few more details"),
                           data.questions>>))
            /\ currentQuestions' = data.questions
       ELSE /\ chatContainer' = Append(chatContainer,
                  Bubble("ai", "accepted", "Idea accepted without clarification"))
            /\ UNCHANGED <<currentStatus, currentQuestions>>
    /\ loadingIndicator' = FALSE
    /\ lastEvent' = Event("submitOk", data)
    /\ UNCHANGED <<messageInput, nextRequest, timers, navigations, unloaded>>

\* A bug: the error path takes the conversation back to its start.
handleNotOkResets(r, resp) ==
    /\ UNCHANGED <<chatVars, dashboardVars>>
    /\ ~unloaded
    /\ r \in fetches
    /\ fetches' = fetches \ {r}
    /\ chatContainer' = Append(chatContainer, ApiErrorBubble(resp))
    /\ loadingIndicator' = FALSE
    /\ currentStatus' = "initial"
    /\ sessionId' = Null
    /\ lastEvent' = Event(IF r.kind = "submit" THEN "submitNotOk" ELSE "clarifyNotOk",
                          resp)
    /\ UNCHANGED <<messageInput, currentQuestions, nextRequest, timers,
                   navigations, unloaded>>

\* The !response.ok branch of either handler, lines 47-51 and 111-115, with
\* the catch and finally of sendMessage, lines 32-37.
handleNotOk(r, resp) ==
    /\ UNCHANGED <<chatVars, dashboardVars>>
    /\ ~unloaded
    /\ r \in fetches
    /\ fetches' = fetches \ {r}
    /\ chatContainer' = Append(chatContainer, ApiErrorBubble(resp))
    /\ loadingIndicator' = FALSE
    /\ lastEvent' = Event(IF r.kind = "submit" THEN "submitNotOk" ELSE "clarifyNotOk",
                          resp)
    /\ UNCHANGED <<messageInput, sessionId, currentStatus, currentQuestions,
                   nextRequest, timers, navigations, unloaded>>

\* fetch rejects (no response at all): the catch and finally of sendMessage.
fetchRejected(r) ==
    /\ UNCHANGED <<chatVars, dashboardVars>>
    /\ ~unloaded
    /\ r \in fetches
    /\ fetches' = fetches \ {r}
    /\ chatContainer' = Append(chatContainer,
                               Bubble("ai", "error", <<"Error: Failed to fetch">>))
    /\ loadingIndicator' = FALSE
    /\ lastEvent' = Event("fetchRejected", r.kind)
    /\ UNCHANGED <<messageInput, sessionId, currentStatus, currentQuestions,
                   nextRequest, timers, navigations, unloaded>>

\* A bug: the navigation is scheduled whatever the status.
handleClarificationOkAlwaysNavigates(r, data) ==
    /\ UNCHANGED <<chatVars, dashboardVars>>
    /\ ~unloaded
    /\ r \in fetches /\ r.kind = "clarify"
    /\ fetches' = fetches \ {r}
    /\ chatContainer' = Append(chatContainer,
          IF data.status = "complete"
          THEN Bubble("ai", "complete", "Plan Generated Successfully!")
          ELSE Bubble("ai", "unexpected", data.status))
    /\ timers' = timers + 1
    /\ loadingIndicator' = FALSE
    /\ lastEvent' = Event("clarifyOk", data)
    /\ UNCHANGED <<messageInput, sessionId, currentStatus, currentQuestions,
                   nextRequest, navigations, unloaded>>

\* handleClarification, lines 117-131, and the finally of sendMessage.
handleClarificationOk(r, data) ==
    /\ UNCHANGED <<chatVars, dashboardVars>>
    /\ ~unloaded
    /\ r \in fetches /\ r.kind = "clarify"
    /\ fetches' = fetches \ {r}
    /\ IF data.status = "complete"
       THEN /\ chatContainer' = Append(chatContainer,
                  Bubble("ai", "complete", "Plan Generated Successfully!"))
            /\ timers' = timers + 1
       ELSE /\ chatContainer' = Append(chatContainer,
                  Bubble("ai", "unexpected", data.status))
            /\ UNCHANGED timers
    /\ loadingIndicator' = FALSE
    /\ lastEvent' = Event("clarifyOk", data)
    /\ UNCHANGED <<messageInput, sessionId, currentStatus, currentQuestions,
                   nextRequest, navigations, unloaded>>

\* The setTimeout callback of lines 126-128.
navigationTimer ==
    /\ UNCHANGED <<chatVars, dashboardVars>>
    /\ ~unloaded
    /\ timers > 0
    /\ timers' = timers - 1
    /\ navigations' = Append(navigations, <<"/static/results.html?session_id=", sessionId>>)
    /\ lastEvent' = Event("navigationTimer", sessionId)
    /\ UNCHANGED <<messageInput, sessionId, currentStatus, currentQuestions,
                   chatContainer, loadingIndicator, fetches, nextRequest, unloaded>>

\* The browser commits the navigation: the page and its handlers are gone.
pageUnload ==
    /\ UNCHANGED <<chatVars, dashboardVars>>
    /\ ~unloaded
    /\ navigations # <<>>
    /\ unloaded' = TRUE
    /\ lastEvent' = Event("pageUnload", Null)
    /\ UNCHANGED <<messageInput, sessionId, currentStatus, currentQuestions,
                   chatContainer, loadingIndicator, fetches, nextRequest, timers,
                   navigations>>

\* The onboarding page alone: the dashboard is another document.
OnboardingNext ==
    \/ \E raw \in Texts : typeInput(raw)
    \/ sendMessage
    \/ \E r \in fetches, data \in IdeaData : handleIdeaSubmissionOk(r, data)
    \/ \E r \in fetches, data \in ClarifyData : handleClarificationOk(r, data)
    \/ \E r \in fetches, resp \in ErrorResponses : handleNotOk(r, resp)
    \/ \E r \in fetches : fetchRejected(r)
    \/ navigationTimer
    \/ pageUnload

-----------------------------------------------------------------------------
(* The section chat of the dashboard *)

\* The sections that have a chat button, and what the getContextFn of each
\* button returns: the section's data of the rendered plan.
Topics == {"KPIs", "Risks"}
ContextOf(topic) == <<"data of", topic>>

\* session_id of the dashboard's URL, read at line 244.
UrlSessionId == "s1"

\* What the user types into the chat input.
ChatTexts == {<<>>, <<" ">>, <<" ", "h", "i">>}

\* The html of the chat is the sequence of its elements.  Each element has
\* its kind, its content and its id attribute; send and topic record the
\* sendChatMessage call that made it and are no part of the html.
\* An element without an id attribute.
NoId == <<>>

Placeholder ==
    [kind |-> "placeholder", content |-> "Start a conversation about this section...",
     id |-> NoId, send |-> 0, topic |-> Null]

Element(kind, content, id, call) ==
    [kind |-> kind, content |-> content, id |-> id, send |-> call.send,
     topic |-> call.topic]

\* innerHTML.includes('Start a conversation'), line 228.  No text of
\* ChatTexts and no reply holds that phrase.
IncludesStartAConversation(html) ==
    \E i \in 1..Len(html) : html[i].kind = "placeholder"

\* marked.parse, line 265
MarkedParse(reply) == <<"<p>", reply, "</p>">>

\* The positions of the elements of html with this id attribute.
WithId(html, id) == {i \in 1..Len(html) : html[i].id = id}

\* document.getElementById(id) within the chat history: the first such
\* element, 0 for null.
GetElementById(html, id) ==
    IF WithId(html, id) = {} THEN 0
    ELSE CHOOSE i \in WithId(html, id) : \A j \in WithId(html, id) : i <= j

\* Element.remove()
Remove(html, i) == SubSeq(html, 1, i - 1) \o SubSeq(html, i + 1, Len(html))

\* map[topic] = html, lines 235 and 279
Store(map, topic, html) == (topic :> html) @@ map

\* A bug: every open starts a new, empty thread.
HistoryAlwaysNew(topic) == <<Placeholder>>

\* chatHistoryMap[topic] || placeholder, line 166
HistoryOrPlaceholder(topic) ==
    IF topic \in DOMAIN chatHistoryMap THEN chatHistoryMap[topic]
    ELSE <<Placeholder>>

ChatInit ==
    /\ currentChatTopic = ""
    /\ currentChatContext = ""
    /\ chatHistoryMap = <<>>
    /\ chatHistoryDiv = <<>>
    /\ modalChatInput = <<>>
    /\ chatFetches = {}
    /\ nextChat = 1
    /\ now = 0

\* A millisecond passes.
tick ==
    /\ UNCHANGED <<onboardingVars, dashboardVars>>
    /\ now < MaxTime
    /\ now' = now + 1
    /\ lastEvent' = Event("tick", Null)
    /\ UNCHANGED <<currentChatTopic, currentChatContext, chatHistoryMap,
                   chatHistoryDiv, modalChatInput, chatFetches, nextChat>>

\* The user edits the chat input of the open modal.
typeChatInput(raw) ==
    /\ UNCHANGED <<onboardingVars, dashboardVars>>
    /\ currentChatTopic # ""
    /\ raw # modalChatInput
    /\ modalChatInput' = raw
    /\ lastEvent' = Event("typeChatInput", raw)
    /\ UNCHANGED <<currentChatTopic, currentChatContext, chatHistoryMap,
                   chatHistoryDiv, chatFetches, nextChat, now>>

\* A bug: the context is captured by the first open only.
openChatKeepsContext(topic, context) ==
    /\ UNCHANGED <<onboardingVars, dashboardVars>>
    /\ currentChatTopic' = topic
    /\ currentChatContext' = (IF currentChatTopic = "" THEN context
                              ELSE currentChatContext)
    /\ chatHistoryDiv' = HistoryOrPlaceholder(topic)
    /\ lastEvent' = Event("openChat", topic)
    /\ UNCHANGED <<chatHistoryMap, modalChatInput, chatFetches, nextChat, now>>

\* The click handler of a section's chat button, lines 188-192, and
\* openChat, lines 157-176.
openChat(topic, context) ==
    /\ UNCHANGED <<onboardingVars, dashboardVars>>
    /\ currentChatTopic' = topic
    /\ currentChatContext' = context
    /\ chatHistoryDiv' = HistoryOrPlaceholder(topic)
    /\ lastEvent' = Event("openChat", topic)
    /\ UNCHANGED <<chatHistoryMap, modalChatInput, chatFetches, nextChat, now>>

\* A bug: the history is saved once the loading bubble is in it.
SavedWithLoading(withUser, withLoading) == withLoading

\* What line 235 saves, chatHistoryDiv.innerHTML as it is there: the user's
\* message is in it, the loading bubble of lines 238-241 not yet.
SavedOnSend(withUser, withLoading) == withUser

\* sendChatMessage, lines 216-255, up to the fetch it awaits.  The modal that
\* holds the input is shown by openChat only.
sendChatMessage ==
    /\ UNCHANGED <<onboardingVars, dashboardVars>>
    /\ currentChatTopic # ""
    /\ LET text == Trim(modalChatInput)
           topic == currentChatTopic
           call == [send |-> nextChat, topic |-> topic]
           cleared == IF IncludesStartAConversation(chatHistoryDiv) THEN <<>>
                      ELSE chatHistoryDiv
           withUser == Append(cleared, Element("user", text, NoId, call))
           loadingId == <<"chat-loading-", now>>
           withLoading ==
               Append(withUser, Element("loading", "Thinking...", loadingId, call))
       IN IF text = <<>>
          THEN /\ lastEvent' = Event("sendChatMessage", Null)
               /\ UNCHANGED chatVars
          ELSE /\ nextChat <= MaxChatSends
               /\ modalChatInput' = <<>>
               /\ chatHistoryMap' =
                     Store(chatHistoryMap, topic, SavedOnSend(withUser, withLoading))
               /\ chatHistoryDiv' = withLoading
               /\ chatFetches' = chatFetches \cup
                     {[send |-> nextChat, topic |-> topic, loadingId |-> loadingId,
                       body |-> [session_id |-> UrlSessionId, topic |-> topic,
                                 context |-> currentChatContext, message |-> text]]}
               /\ nextChat' = nextChat + 1
               /\ lastEvent' = Event("sendChatMessage", nextChat)
               /\ UNCHANGED <<currentChatTopic, currentChatContext, now>>

\* The rest of sendChatMessage once the loading bubble is to be replaced by
\* entry: lines 260-279.  With the bubble gone from the document
\* getElementById gives null and .remove() throws a TypeError, in the try
\* and then again in the catch, which ends the call with nothing written.
ReplaceLoading(r, entry) ==
    LET i == GetElementById(chatHistoryDiv, r.loadingId)
        html == Append(Remove(chatHistoryDiv, i), entry)
    IN IF i = 0
       THEN UNCHANGED <<chatHistoryDiv, chatHistoryMap>>
       ELSE /\ chatHistoryDiv' = html
            /\ chatHistoryMap' = Store(chatHistoryMap, r.topic, html)

\* sendChatMessage, lines 257-279, for a response with response.ok.
chatResponseOk(r, reply) ==
    /\ UNCHANGED <<onboardingVars, dashboardVars>>
    /\ r \in chatFetches
    /\ chatFetches' = chatFetches \ {r}
    /\ ReplaceLoading(r, Element("reply", MarkedParse(reply), NoId, r))
    /\ lastEvent' = Event("chatOk", r)
    /\ UNCHANGED <<currentChatTopic, currentChatContext, modalChatInput,
                   nextChat, now>>

\* sendChatMessage, lines 257-279, for a response without response.ok whose
\* body is JSON.
chatResponseNotOk(r, detail) ==
    /\ UNCHANGED <<onboardingVars, dashboardVars>>
    /\ r \in chatFetches
    /\ chatFetches' = chatFetches \ {r}
    /\ ReplaceLoading(r, Element("error",
                                 <<"Error: ", OrElse(detail, "Unknown error")>>,
                                 NoId, r))
    /\ lastEvent' = Event("chatFailed", r)
    /\ UNCHANGED <<currentChatTopic, currentChatContext, modalChatInput,
                   nextChat, now>>

\* sendChatMessage, lines 272-279: fetch rejects, or response.json() rejects
\* on a body that is no JSON.
chatTransportFailure(r) ==
    /\ UNCHANGED <<onboardingVars, dashboardVars>>
    /\ r \in chatFetches
    /\ chatFetches' = chatFetches \ {r}
    /\ ReplaceLoading(r, Element("error", <<"Network Error: ", "Failed to fetch">>,
                                 NoId, r))
    /\ lastEvent' = Event("chatFailed", r)
    /\ UNCHANGED <<currentChatTopic, currentChatContext, modalChatInput,
                   nextChat, now>>

ChatNext ==
    \/ tick
    \/ \E raw \in ChatTexts : typeChatInput(raw)
    \/ \E topic \in Topics : openChat(topic, ContextOf(topic))
    \/ sendChatMessage
    \/ \E r \in chatFetches : chatResponseOk(r, "reply")
    \/ \E r \in chatFetches, detail \in {Undefined, "bad request"} :
          chatResponseNotOk(r, detail)
    \/ \E r \in chatFetches : chatTransportFailure(r)

-----------------------------------------------------------------------------
(* The load of the dashboard *)

\* What urlParams.get('session_id') gives: null without the parameter, the
\* empty string for "?session_id=", else the id.
UrlSessionIds == {Null, "", UrlSessionId}

\* Bodies of a dashboard response with response.ok: JSON with a plan, JSON
\* without one, or no JSON.
DashboardBodies ==
    { [parseable |-> TRUE, plan |-> "plan"],
      [parseable |-> TRUE, plan |-> Undefined],
      [parseable |-> FALSE, plan |-> Undefined] }

\* The text that the markup gives #loading-text.
MarkupText == <<>>

\* A bug: only a missing parameter counts as no session id.
NullOnly(id) == id = Null

\* !sessionId of line 5: null and the empty string are falsy.
NoSessionId(id) == id = Null \/ id = ""

\* The document before DOMContentLoaded.
DashboardInit ==
    /\ urlSessionId \in UrlSessionIds
    /\ dashboardStage = "start"
    /\ dashboardRequests = <<>>
    /\ alerts = 0
    /\ dashboardLocation = <<>>
    /\ loadingOverlay = TRUE
    /\ dashboardContent = FALSE
    /\ loadingText = MarkupText
    /\ chatButtons = FALSE

\* The document once renderDashboard has rendered the plan of UrlSessionId.
DashboardRendered ==
    /\ urlSessionId = UrlSessionId
    /\ dashboardStage = "settled"
    /\ dashboardRequests = <<UrlSessionId>>
    /\ alerts = 0
    /\ dashboardLocation = <<>>
    /\ loadingOverlay = FALSE
    /\ dashboardContent = TRUE
    /\ loadingText = MarkupText
    /\ chatButtons = TRUE

\* The catch of lines 16-20.
ShowLoadError(message) ==
    /\ loadingText' = <<"Error loading data: ", message>>
    /\ UNCHANGED <<loadingOverlay, dashboardContent, chatButtons>>

\* The DOMContentLoaded handler, lines 1-12, up to the fetch it awaits.
DOMContentLoaded ==
    /\ UNCHANGED <<onboardingVars, chatVars>>
    /\ dashboardStage = "start"
    /\ IF NoSessionId(urlSessionId)
       THEN /\ alerts' = alerts + 1
            /\ dashboardLocation' = Append(dashboardLocation, "/")
            /\ dashboardStage' = "left"
            /\ UNCHANGED dashboardRequests
       ELSE /\ dashboardRequests' = Append(dashboardRequests, urlSessionId)
            /\ dashboardStage' = "awaiting"
            /\ UNCHANGED <<alerts, dashboardLocation>>
    /\ lastEvent' = Event("DOMContentLoaded", urlSessionId)
    /\ UNCHANGED <<urlSessionId, loadingOverlay, dashboardContent, loadingText,
                   chatButtons>>

\* Lines 13-16 for a response with response.ok, and renderDashboard, lines
\* 24-29 and the sections after them, for a plan that has every section; a
\* body that is no JSON makes response.json() reject, which the catch shows.
dashboardResponseOk(body) ==
    /\ UNCHANGED <<onboardingVars, chatVars>>
    /\ dashboardStage = "awaiting"
    /\ dashboardStage' = "settled"
    /\ IF body.parseable
       THEN /\ loadingOverlay' = FALSE
            /\ dashboardContent' = TRUE
            /\ chatButtons' = (body.plan # Undefined)
            /\ UNCHANGED loadingText
       ELSE ShowLoadError("Unexpected token")
    /\ lastEvent' = Event("dashboardOk", body)
    /\ UNCHANGED <<urlSessionId, dashboardRequests, alerts, dashboardLocation>>

\* Line 13 for a response without response.ok: the throw and the catch.
dashboardResponseNotOk ==
    /\ UNCHANGED <<onboardingVars, chatVars>>
    /\ dashboardStage = "awaiting"
    /\ dashboardStage' = "settled"
    /\ ShowLoadError("Failed to fetch dashboard data")
    /\ lastEvent' = Event("dashboardFailed", "not ok")
    /\ UNCHANGED <<urlSessionId, dashboardRequests, alerts, dashboardLocation>>

\* fetch rejects (no response at all): the catch.
dashboardFetchRejected ==
    /\ UNCHANGED <<onboardingVars, chatVars>>
    /\ dashboardStage = "awaiting"
    /\ dashboardStage' = "settled"
    /\ ShowLoadError("Failed to fetch")
    /\ lastEvent' = Event("dashboardFailed", "rejected")
    /\ UNCHANGED <<urlSessionId, dashboardRequests, alerts, dashboardLocation>>

\* The dashboard: its load, then the chat of the sections that
\* renderDashboard gave a button.
DashboardNext ==
    \/ DOMContentLoaded
    \/ \E body \in DashboardBodies : dashboardResponseOk(body)
    \/ dashboardResponseNotOk
    \/ dashboardFetchRejected
    \/ (chatButtons /\ ChatNext)

-----------------------------------------------------------------------------
(* Specifications *)

\* The onboarding page after its script has run; the dashboard of the
\* session UrlSessionId after it has been rendered.
Init ==
    /\ OnboardingInit
    /\ ChatInit
    /\ DashboardRendered
    /\ lastEvent = Event("load", Null)

\* The dashboard before DOMContentLoaded.
DashboardPageInit ==
    /\ OnboardingInit
    /\ ChatInit
    /\ DashboardInit
    /\ lastEvent = Event("load", Null)

Next == OnboardingNext

\* The onboarding page.
Spec == Init /\ [][Next]_vars

\* The dashboard's section chat.
ChatSpec == Init /\ [][ChatNext]_vars

\* The dashboard from its load on.
DashboardSpec == DashboardPageInit /\ [][DashboardNext]_vars

-----------------------------------------------------------------------------
(* Properties of the onboarding page *)

IsBlank(s) == \A i \in 1..Len(s) : s[i] = " "

Last(seq) == seq[Len(seq)]

\* The step is a call of sendMessage.
SendStep == lastEvent'.op = "sendMessage"

\* A clarification response with status complete has been processed.
CompleteProcessed ==
    \E i \in 1..Len(chatContainer) : chatContainer[i].kind = "complete"

QuestionIdsOf(questions) ==
    IF questions = NoList THEN {}
    ELSE {questions[i] : i \in 1..Len(questions)}

\* C1: a sendMessage call with a non-blank text while currentStatus is
\* 'initial' issues exactly one request, an idea submission with an empty
\* session_id; and the handling of a successful response with status
\* clarification_required leaves currentStatus 'clarification', sessionId the
\* response's session_id and window.currentQuestions the response's questions.
C1_IdeaSubmission ==
    [][ /\ (SendStep /\ ~IsBlank(messageInput) /\ currentStatus = "initial")
            => \E r \in fetches' :
                  /\ r \notin fetches
                  /\ fetches' = fetches \cup {r}
                  /\ r.kind = "submit"
                  /\ r.body.session_id = ""
                  /\ ~IsBlank(r.body.idea_text)
                  /\ Last(chatContainer').content = r.body.idea_text
        /\ (lastEvent'.op = "submitOk"
              /\ lastEvent'.arg.status = "clarification_required")
            => /\ currentStatus' = "clarification"
               /\ sessionId' = lastEvent'.arg.session_id
               /\ currentQuestions' = lastEvent'.arg.questions
               /\ Cardinality(fetches') = Cardinality(fetches) - 1
      ]_vars

C1_Witness ==
    /\ lastEvent.op = "submitOk"
    /\ lastEvent.arg.status = "clarification_required"
    /\ currentStatus = "clarification"
    /\ sessionId = "s2"
    /\ Len(currentQuestions) = 3

\* C2: once sessionId has a value, no step changes it.
C2_SessionIdNeverChanges ==
    [][sessionId # Null => sessionId' = sessionId]_vars

\* C3: once a clarification response with status complete has been
\* processed, the phase is Complete ('done'), exactly one navigation is
\* scheduled or emitted, and every navigation emitted carries the sessionId.
C3_CompleteNavigatesOnce ==
    CompleteProcessed =>
        /\ currentStatus = "done"
        /\ timers + Len(navigations) = 1
        /\ \A i \in 1..Len(navigations) : navigations[i][2] = sessionId

\* C4: once a clarification response with status complete has been
\* processed, no sendMessage call issues a request.
C4_NoRequestAfterComplete ==
    [][CompleteProcessed => fetches' \subseteq fetches]_vars

\* C5: window.currentQuestions holds a question exactly when the phase is
\* AwaitingClarification, and holds none once the plan is complete.
C5_QuestionsIffClarification ==
    /\ (QuestionIdsOf(currentQuestions) # {}) <=> (currentStatus = "clarification")
    /\ CompleteProcessed => QuestionIdsOf(currentQuestions) = {}

\* C6: a sendMessage call with an empty or white-space-only text issues no
\* request, adds no bubble and leaves phase, sessionId and questions alone.
C6_BlankInputIsNoOp ==
    [][(SendStep /\ IsBlank(messageInput))
          => UNCHANGED <<fetches, nextRequest, chatContainer, currentStatus,
                         sessionId, currentQuestions, messageInput,
                         loadingIndicator, timers, navigations>>]_vars

\* A sendMessage call has just returned at line 18 with white space typed,
\* in the clarification phase.
C6_Witness ==
    /\ lastEvent.op = "sendMessage"
    /\ messageInput = <<" ", " ">>
    /\ currentStatus = "clarification"

C8_AnswersDuplicated ==
    [][(SendStep /\ ~IsBlank(messageInput) /\ currentStatus = "clarification")
          => \E r \in fetches' :
                /\ r \notin fetches
                /\ r.kind = "clarify"
                /\ DOMAIN r.body.answers = QuestionIdsOf(currentQuestions)
                /\ \A q \in DOMAIN r.body.answers :
                      r.body.answers[q] = Last(chatContainer').content
                /\ ~IsBlank(Last(chatContainer').content)
      ]_vars

\* A clarification request for several questions is in flight.
C8_Witness ==
    \E r \in fetches :
        /\ r.kind = "clarify"
        /\ DOMAIN r.body.answers = {"q1", "q2"}
        /\ lastEvent.op = "sendMessage"

\* C13: at most one onboarding request awaits its response.
C13_OneRequestInFlight == Cardinality(fetches) <= 1

\* An idea submission has had a successful response.
SubmissionSucceeded ==
    \E i \in 1..Len(chatContainer) :
        chatContainer[i].kind \in {"questions", "accepted"}

\* C14: sessionId is set whenever the phase is AwaitingClarification or an
\* idea submission has had a successful response; it is unset only in
\* AwaitingIdea before any such response.
C14_SessionIdSetAfterSuccess ==
    /\ (currentStatus = "clarification" \/ SubmissionSucceeded)
          => sessionId # Null
    /\ sessionId = Null
          => (currentStatus = "initial" /\ ~SubmissionSucceeded)

\* An idea was accepted without clarification: the phase is still
\* AwaitingIdea and the session id is stored.
C14_Witness ==
    /\ lastEvent.op = "submitOk"
    /\ lastEvent.arg.status = "accepted"
    /\ currentStatus = "initial"
    /\ sessionId = "s2"

ExpectedErrorMessage(resp) ==
    IF resp.parseable /\ resp.detail # Undefined THEN resp.detail
    ELSE IF resp.statusText # "" THEN resp.statusText
    ELSE "Unknown API Error"

\* C16: the error bubble of a non-success response holds the detail of the
\* body when it has one, else the status text when that is not empty, else
\* the generic label; a body that is no JSON has no detail.
C16_ErrorMessageFallback ==
    [][lastEvent'.op \in {"submitNotOk", "clarifyNotOk"}
          => /\ Last(chatContainer').kind = "error"
             /\ Last(chatContainer').content[3] = ExpectedErrorMessage(lastEvent'.arg)
             /\ Last(chatContainer').content[2] = lastEvent'.arg.status
      ]_vars

\* A response whose body is no JSON has just been reported by its status
\* text.
C16_Witness ==
    /\ lastEvent.op = "submitNotOk"
    /\ ~lastEvent.arg.parseable
    /\ lastEvent.arg.statusText = "Bad Gateway"
    /\ Last(chatContainer).content[3] = "Bad Gateway"

\* C17: every clarification request carries a session id that is set and an
\* answers map that is not empty.
C17_ClarifyRequestWellFormed ==
    \A r \in fetches :
        r.kind = "clarify"
           => /\ r.body.session_id # Null
              /\ DOMAIN r.body.answers # {}

-----------------------------------------------------------------------------
(* Properties of the section chat *)

\* The elements of html of this kind that the send numbered n made.
MadeBy(html, kind, n) ==
    {i \in 1..Len(html) : html[i].kind = kind /\ html[i].send = n}

\* C9: the stored history of a topic holds only elements made by sends on
\* that topic (their user messages, pending bubbles, replies and errors), the
\* user messages in the order of the sends.
C9_HistoriesDoNotMix ==
    \A t \in DOMAIN chatHistoryMap :
        LET h == chatHistoryMap[t] IN
        /\ \A i \in 1..Len(h) : h[i].kind # "placeholder" => h[i].topic = t
        /\ \A i, j \in 1..Len(h) :
              (i < j /\ h[i].kind = "user" /\ h[j].kind = "user")
                 => h[i].send < h[j].send

\* C10: when the failure of a chat send has been handled, the stored history
\* of the send's topic holds the user's message of that send and an error
\* entry for it.
C10_FailureIsVisible ==
    [][lastEvent'.op = "chatFailed"
          => LET r == lastEvent'.arg IN
             /\ r.topic \in DOMAIN chatHistoryMap'
             /\ MadeBy(chatHistoryMap'[r.topic], "user", r.send) # {}
             /\ MadeBy(chatHistoryMap'[r.topic], "error", r.send) # {}
      ]_vars

\* C11: openChat shows the stored history of its topic (the placeholder when
\* the topic has none) and changes no stored history, so opening a topic
\* again with no send and no response handled in between shows the same
\* history and stores nothing new.
C11_ReopenShowsSameHistory ==
    [][lastEvent'.op = "openChat"
          => LET t == lastEvent'.arg IN
             /\ chatHistoryMap' = chatHistoryMap
             /\ chatHistoryDiv' = (IF t \in DOMAIN chatHistoryMap
                                   THEN chatHistoryMap[t]
                                   ELSE <<Placeholder>>)
             /\ (lastEvent.op = "openChat" /\ lastEvent.arg = t)
                   => chatHistoryDiv' = chatHistoryDiv
      ]_vars

\* A topic whose history holds a message and its reply has just been opened
\* and shows them.
C11_Witness ==
    /\ lastEvent.op = "openChat"
    /\ lastEvent.arg \in DOMAIN chatHistoryMap
    /\ chatHistoryDiv = chatHistoryMap[lastEvent.arg]
    /\ \E i \in 1..Len(chatHistoryDiv) : chatHistoryDiv[i].kind = "reply"

\* C12: when the successful response to a chat send has been handled, the
\* stored history of the send's topic holds the reply to that send and no
\* pending bubble of it.
C12_ReplyReplacesPending ==
    [][lastEvent'.op = "chatOk"
          => LET r == lastEvent'.arg IN
             /\ r.topic \in DOMAIN chatHistoryMap'
             /\ MadeBy(chatHistoryMap'[r.topic], "reply", r.send) # {}
             /\ MadeBy(chatHistoryMap'[r.topic], "loading", r.send) = {}
      ]_vars

\* C18: a send of a text that is not blank stores for the current topic a
\* history that ends with the user's message of this send and holds no
\* pending bubble of this send, issues one request, and leaves the stored
\* histories of the other topics as they were; a send of a blank text issues
\* no request and changes no stored history.
C18_SendStoresUserMessage ==
    [][lastEvent'.op = "sendChatMessage"
          => IF IsBlank(modalChatInput)
             THEN chatFetches' = chatFetches /\ chatHistoryMap' = chatHistoryMap
             ELSE LET t == currentChatTopic
                      n == nextChat
                  IN /\ t \in DOMAIN chatHistoryMap'
                     /\ Last(chatHistoryMap'[t]).kind = "user"
                     /\ Last(chatHistoryMap'[t]).send = n
                     /\ MadeBy(chatHistoryMap'[t], "loading", n) = {}
                     /\ DOMAIN chatHistoryMap' = DOMAIN chatHistoryMap \cup {t}
                     /\ \A u \in DOMAIN chatHistoryMap \ {t} :
                           chatHistoryMap'[u] = chatHistoryMap[u]
                     /\ \E r \in chatFetches' :
                           /\ r.send = n
                           /\ chatFetches' = chatFetches \cup {r}
                           /\ r \notin chatFetches
      ]_vars

\* A text has just been sent on one topic while the other topic has a stored
\* history: the request is in flight and its pending bubble is displayed.
C18_Witness ==
    /\ lastEvent.op = "sendChatMessage"
    /\ \E r \in chatFetches :
          /\ r.send + 1 = nextChat
          /\ r.topic = currentChatTopic
          /\ MadeBy(chatHistoryDiv, "loading", r.send) # {}
          /\ Last(chatHistoryMap[r.topic]).send = r.send
          /\ \E u \in DOMAIN chatHistoryMap : u # r.topic

\* C19: every chat request names the topic under which its reply is stored
\* and carries the context of that topic, which is the context that the
\* last openChat captured; the current topic and context belong together.
C19_RequestPairsTopicAndContext ==
    /\ \A r \in chatFetches :
          /\ r.body.topic = r.topic
          /\ r.body.context = ContextOf(r.body.topic)
    /\ currentChatTopic # "" => currentChatContext = ContextOf(currentChatTopic)

\* A request of one topic is in flight while the other topic is open.
C19_Witness ==
    /\ currentChatTopic = "KPIs"
    /\ \E r \in chatFetches :
          /\ r.body.topic = "Risks"
          /\ r.body.context = ContextOf("Risks")

\* C20: once every chat request has had its response or failure handled, no
\* stored history and no displayed history holds a pending bubble.
C20_PendingEntriesAreTransient ==
    chatFetches = {}
       => /\ \A i \in 1..Len(chatHistoryDiv) : chatHistoryDiv[i].kind # "loading"
          /\ \A t \in DOMAIN chatHistoryMap :
                \A i \in 1..Len(chatHistoryMap[t]) :
                    chatHistoryMap[t][i].kind # "loading"

\* C21: the load of the dashboard without a session id (no parameter, or
\* an empty one) issues no request and sends the browser to the home page;
\* every request issued carries a session id that is not empty; a failed
\* request shows an error and leaves the dashboard content hidden.
C21_LoadWithoutSessionRedirects ==
    [][/\ (lastEvent'.op = "DOMContentLoaded" /\ urlSessionId \in {Null, ""})
            => /\ dashboardRequests' = <<>>
               /\ dashboardLocation' = <<"/">>
       /\ \A i \in 1..Len(dashboardRequests') :
             dashboardRequests'[i] \notin {Null, ""}
       /\ dashboardLocation' # <<>> => dashboardRequests' = <<>>
       /\ lastEvent'.op = "dashboardFailed"
            => /\ Len(loadingText') = 2
               /\ loadingText'[1] = "Error loading data: "
               /\ ~dashboardContent'
               /\ loadingOverlay'
               /\ ~chatButtons'
      ]_vars

\* The dashboard was loaded with an empty session_id parameter: the browser
\* is sent home and nothing was requested.
C21_Witness ==
    /\ lastEvent.op = "DOMContentLoaded"
    /\ urlSessionId = ""
    /\ dashboardLocation = <<"/">>
    /\ dashboardRequests = <<>>
    /\ alerts = 1

====
